---- MODULE Spec2Model ----
(***************************************************************************)
(* State-machine model of the wholesale backend (src/main.py): the product *)
(* catalogue (products, pricing_tiers, product_images, reviews) and the    *)
(* order workflow (orders, order_items, customer aggregation), the blog    *)
(* (blog_categories, blog_posts) and the email helper (src/email_utils.py).*)
(*                                                                         *)
(* A table is the sequence of its committed rows in insertion order.  A    *)
(* comma-separated form field is the sequence of the pieces that           *)
(* str.split(',') yields.  Floats are modelled by integers.  A handler     *)
(* that commits twice is one step per commit, so that other requests (of   *)
(* another server process) may run between the two commits.                *)
(***************************************************************************)
EXTENDS Integers, Sequences, FiniteSets, TLC

\* ---------------------------------------------------------------- bounds
MaxTiers == 1        \* most pieces in min_quantities / prices
MaxImages == 2       \* most pieces in image_colors, most uploaded files
MaxProducts == 2     \* product ids the database hands out

Workers == {"w1", "w2"}          \* requests handled concurrently
Skus == {"SKU-A", "SKU-B"}
QtyPieces == {"10", " ", "x"}    \* pieces of the min_quantities field
PricePieces == {"5", " ", "x"}   \* pieces of the prices field
ColorPieces == {"red", " blue", " "}

\* ---------------------------------------------------------------- helpers
\* str.split(',') yields at least one piece
PiecesUpTo(S, n) == UNION {[1..k -> S] : k \in 1..n}

Range(s) == {s[i] : i \in DOMAIN s}

\* str.strip() on the pieces the model uses
strip(t) ==
  CASE t = " " -> ""
    [] t = " blue" -> "blue"
    [] OTHER -> t

\* int(text) / float(text): the value, or "ValueError"
IntTexts == {"10", "5"}
parse_number(t) ==
  CASE t = "10" -> 10
    [] t = "5" -> 5

RECURSIVE split_strip(_)
\* [x.strip() for x in field.split(',') if x.strip()]
split_strip(pieces) ==
  IF pieces = <<>> THEN <<>>
  ELSE IF strip(Head(pieces)) = "" THEN split_strip(Tail(pieces))
       ELSE <<strip(Head(pieces))>> \o split_strip(Tail(pieces))

\* the comprehension raises ValueError when a kept piece is not a number
parse_fails(pieces) ==
  LET kept == split_strip(pieces) IN \E i \in DOMAIN kept : kept[i] \notin IntTexts

parse_numbers(pieces) ==
  LET kept == split_strip(pieces) IN [i \in DOMAIN kept |-> parse_number(kept[i])]

\* ---------------------------------------------------------------- state
VARIABLES
  products,        \* table products: set of rows [id, sku]
  pricing_tiers,   \* table pricing_tiers: rows [product_id, min_quantity, price]
  product_images,  \* table product_images: rows [product_id, color]
  reviews,         \* table reviews: rows [product_id, rating, verified]
  next_product_id, \* next value of the products.id sequence
  creq,            \* per worker: the create_product request it is handling
  resp             \* the catalogue request last started and its response

catalog_vars == <<products, pricing_tiers, product_images, reviews,
                  next_product_id, creq, resp>>

VARIABLES
  orders,          \* table orders: rows [id, email_or_phone, grand_total, status, created_at]
  order_items,     \* table order_items: rows [order_id, color_id, color_name, size, quantity]
  next_order_id,   \* next value of the orders.id sequence
  now,             \* the database clock, read by func.now()
  oreq,            \* the submit_order request in progress
  oresp,           \* the request last started and its response
  last_status      \* per order id, the status the last successful update supplied

order_vars == <<orders, order_items, next_order_id, now, oreq, oresp, last_status>>

VARIABLES
  blog_categories,  \* table blog_categories: set of rows [id, name]
  blog_posts,       \* table blog_posts: set of rows [id, category_id]
  next_category_id, \* next value of the blog_categories.id sequence
  next_post_id,     \* next value of the blog_posts.id sequence
  breq,             \* per worker: the blog request it is handling
  bresp             \* the blog request last answered and its response

blog_vars == <<blog_categories, blog_posts, next_category_id, next_post_id, breq, bresp>>

VARIABLES
  outbox,          \* the messages the mail relay accepted, in order
  mresp            \* the /send-email/ request last answered: result and response

mail_vars == <<outbox, mresp>>

vars == <<catalog_vars, order_vars, blog_vars, mail_vars>>

\* the parsed request of a worker that handles none
NoRequest == [sku |-> "", min_quantities |-> <<>>, prices |-> <<>>,
              image_colors |-> <<>>, images |-> 0]

\* a worker: pc is where its handler stands, req the parsed request, pid the
\* id of the product row it committed (0: none)
IdleWorker == [pc |-> "idle", req |-> NoRequest, pid |-> 0]

\* a response: the handler, the status (0: not answered yet), the product id
\* in the body (0: none) and, of a create_product, the sku of the form and
\* whether its images and its colour labels differed in number
response(op, status, id, sku, differ) ==
  [op |-> op, status |-> status, id |-> id, sku |-> sku, differ |-> differ]

CatalogInit ==
  /\ products = {}
  /\ pricing_tiers = <<>>
  /\ product_images = <<>>
  /\ reviews = <<>>
  /\ next_product_id = 1
  /\ creq = [w \in Workers |-> IdleWorker]
  /\ resp = response("none", 0, 0, "", FALSE)

\* the multipart forms a client may post to /products/: the forms without
\* images, whose tier lists vary, and the forms of one sku with one tier or a
\* malformed one, whose images and colour labels vary
TierForms ==
  [sku : Skus,
   min_quantities : PiecesUpTo(QtyPieces, MaxTiers),
   prices : PiecesUpTo(PricePieces, MaxTiers),
   image_colors : {<<" ">>},
   images : {0}]

ImageForms ==
  [sku : {"SKU-A"},
   min_quantities : {<<"10">>, <<"x">>},
   prices : {<<"5">>},
   image_colors : PiecesUpTo(ColorPieces, MaxImages),
   images : 0..MaxImages]

ProductForms == TierForms \cup ImageForms

\* the forms without images, with one tier or a malformed one
PlainForms ==
  [sku : Skus,
   min_quantities : {<<"10">>, <<"x">>},
   prices : {<<"5">>},
   image_colors : {<<" ">>},
   images : {0}]

\* ---------------------------------------------------------------- database
\* db.query(Product).filter(Product.sku == sku).first() is not None
sku_registered(sku) == \E p \in products : p.sku = sku

\* a products table without the UNIQUE index on sku
unique_sku_unchecked(sku) == FALSE

\* the UNIQUE index on products.sku rejects the INSERT (IntegrityError)
unique_sku_violated(sku) == \E p \in products : p.sku = sku

\* db.query(Product).filter(Product.id == product_id).first() is not None
product_exists(product_id) == \E p \in products : p.id = product_id

\* the rows of a table that belong to / do not belong to a product
rows_of(table, product_id) == SelectSeq(table, LAMBDA r : r.product_id = product_id)
rows_not_of(table, product_id) == SelectSeq(table, LAMBDA r : r.product_id # product_id)

\* ---------------------------------------------------------------- create_product
\* the response of the validation part: 0 when the request goes on
validate(form) ==
  IF parse_fails(form.min_quantities) \/ parse_fails(form.prices) THEN 422
  ELSE IF form.images # Len(split_strip(form.image_colors)) THEN 400
  ELSE IF sku_registered(form.sku) THEN 400
  ELSE 0

parsed(form) ==
  [sku |-> form.sku,
   min_quantities |-> parse_numbers(form.min_quantities),
   prices |-> parse_numbers(form.prices),
   image_colors |-> split_strip(form.image_colors),
   images |-> form.images]

\* a worker receives the form, parses it and validates it
create_product_validate(w, form) ==
  /\ creq[w].pc = "idle"
  /\ LET answer == validate(form)
     IN /\ creq' = [creq EXCEPT ![w] =
              IF answer = 0
              THEN [pc |-> "validated", req |-> parsed(form), pid |-> 0]
              ELSE IdleWorker]
        /\ resp' = response("create_product", answer, 0, form.sku,
                            form.images # Len(split_strip(form.image_colors)))
  /\ UNCHANGED <<order_vars, blog_vars, mail_vars, products, pricing_tiers, product_images, reviews,
                 next_product_id>>

\* db.add(db_product); db.commit(); db.refresh(db_product)
create_product_insert(w) ==
  /\ creq[w].pc = "validated"
  /\ next_product_id <= MaxProducts
  /\ IF unique_sku_violated(creq[w].req.sku)
     THEN /\ creq' = [creq EXCEPT ![w] = IdleWorker]
          /\ resp' = response("create_product", 500, 0, creq[w].req.sku, FALSE)
          /\ UNCHANGED <<products, next_product_id>>
     ELSE /\ products' = products \cup {[id |-> next_product_id, sku |-> creq[w].req.sku]}
          /\ next_product_id' = next_product_id + 1
          /\ creq' = [creq EXCEPT ![w] = [@ EXCEPT !.pc = "inserted",
                                                   !.pid = next_product_id]]
          /\ UNCHANGED resp
  /\ UNCHANGED <<order_vars, blog_vars, mail_vars, pricing_tiers, product_images, reviews>>

\* prices[i] raises IndexError in the tier loop when prices is the shorter list
tier_loop_raises(r) == Len(r.min_quantities) > Len(r.prices)

\* the rows the tier loop adds
tier_rows(pid, r) ==
  [i \in 1..Len(r.min_quantities) |->
     [product_id |-> pid, min_quantity |-> r.min_quantities[i], price |-> r.prices[i]]]

\* an image loop that pairs the files with the labels in reverse
image_rows_reversed(pid, r) ==
  [i \in 1..(IF r.images < Len(r.image_colors) THEN r.images ELSE Len(r.image_colors)) |->
     [product_id |-> pid, color |-> r.image_colors[Len(r.image_colors) + 1 - i]]]

\* the rows the image loop adds: zip(images, image_colors)
image_rows(pid, r) ==
  [i \in 1..(IF r.images < Len(r.image_colors) THEN r.images ELSE Len(r.image_colors)) |->
     [product_id |-> pid, color |-> r.image_colors[i]]]

\* what the environment does to the second half of the handler
Environment == {"ok", "file_write_fails", "commit_fails", "no_foreign_keys"}

\* the tier loop, the image loop, db.commit() and db.refresh(db_product)
create_product_children(w, env) ==
  /\ creq[w].pc = "inserted"
  /\ env = "file_write_fails" => creq[w].req.images > 0
  /\ LET r == creq[w].req
         pid == creq[w].pid
         gone == ~product_exists(pid)
         written == /\ ~tier_loop_raises(r)
                    /\ env \notin {"file_write_fails", "commit_fails"}
                    /\ gone => env = "no_foreign_keys"
     IN /\ pricing_tiers' = IF written THEN pricing_tiers \o tier_rows(pid, r)
                                        ELSE pricing_tiers
        /\ product_images' = IF written THEN product_images \o image_rows(pid, r)
                                         ELSE product_images
        /\ resp' = IF written /\ ~gone
                   THEN response("create_product", 200, pid, r.sku, FALSE)
                   ELSE response("create_product", 500, 0, r.sku, FALSE)
  /\ creq' = [creq EXCEPT ![w] = IdleWorker]
  /\ UNCHANGED <<order_vars, blog_vars, mail_vars, products, reviews, next_product_id>>

\* ---------------------------------------------------------------- delete_product
\* a delete that leaves the pricing tiers of the product behind
delete_product_keeps_tiers(product_id) ==
  /\ IF ~product_exists(product_id)
     THEN /\ resp' = response("delete_product", 404, 0, "", FALSE)
          /\ UNCHANGED <<products, pricing_tiers, product_images, reviews>>
     ELSE /\ products' = {p \in products : p.id # product_id}
          /\ product_images' = rows_not_of(product_images, product_id)
          /\ reviews' = rows_not_of(reviews, product_id)
          /\ resp' = response("delete_product", 204, 0, "", FALSE)
          /\ UNCHANGED pricing_tiers
  /\ UNCHANGED <<order_vars, blog_vars, mail_vars, next_product_id, creq>>

\* db.delete(db_product); db.commit(): the relationships cascade the delete
delete_product(product_id) ==
  /\ IF ~product_exists(product_id)
     THEN /\ resp' = response("delete_product", 404, 0, "", FALSE)
          /\ UNCHANGED <<products, pricing_tiers, product_images, reviews>>
     ELSE /\ products' = {p \in products : p.id # product_id}
          /\ pricing_tiers' = rows_not_of(pricing_tiers, product_id)
          /\ product_images' = rows_not_of(product_images, product_id)
          /\ reviews' = rows_not_of(reviews, product_id)
          /\ resp' = response("delete_product", 204, 0, "", FALSE)
  /\ UNCHANGED <<order_vars, blog_vars, mail_vars, next_product_id, creq>>

\* ---------------------------------------------------------------- create_review
\* the request body: the fields schemas.ReviewCreate declares
ReviewBodies == [rating : {5}, text : {"good"}, email : {"a@x.io"},
                 user_name : {"Anonymous"}]

\* reading an attribute the body does not have raises AttributeError
has_attribute(body, name) == name \in DOMAIN body

create_review(product_id, review) ==
  /\ IF ~product_exists(product_id)
     THEN /\ resp' = response("create_review", 404, 0, "", FALSE)
          /\ UNCHANGED reviews
     ELSE IF ~has_attribute(review, "country")
     THEN /\ resp' = response("create_review", 500, 0, "", FALSE)
          /\ UNCHANGED reviews
     ELSE /\ reviews' = Append(reviews, [product_id |-> product_id,
                                         rating |-> review.rating, verified |-> TRUE])
          /\ resp' = response("create_review", 200, 0, "", FALSE)
  /\ UNCHANGED <<order_vars, blog_vars, mail_vars, products, pricing_tiers, product_images, next_product_id, creq>>

ProductIds == 1..MaxProducts

\* ================================================================ orders
MaxOrders == 2       \* order ids the database hands out
MaxCart == 2         \* most lines in a cart
MaxColors == 1       \* most entries in productDetails['colors']

Customers == {"ann@x.io", "5550100"}   \* emailOrPhone
Subtotals == {10, 20}                  \* subtotal, in whole units
ColorEntries == {[id |-> "c1", name |-> "Red"], [id |-> "c2", name |-> "Blue"]}
Statuses == {"Shipped", "Cancelled"}   \* bodies of PUT /orders/{id}/status

SeqsUpTo(S, n) == UNION {[1..k -> S] : k \in 0..n}

\* the submit_order in progress: where the handler stands, the cart and the
\* colors of the request, the id of the order row it committed (0: none)
NoOrder == [pc |-> "idle", cartItems |-> <<>>, colors |-> <<>>, oid |-> 0]

OrdersInit ==
  /\ orders = <<>>
  /\ order_items = <<>>
  /\ next_order_id = 1
  /\ now = 0
  /\ oreq = NoOrder
  /\ oresp = [op |-> "none", status |-> 0, body |-> <<>>]
  /\ last_status = <<>>

\* the cart lines a client may send: colour id, size and quantity
CartLines == {[colorId |-> "c1", size |-> "M", qty |-> 1],
              [colorId |-> "c2", size |-> "L", qty |-> 0]}

\* the bodies a client may post to /orders/submit/; has_colors tells whether
\* productDetails has the key 'colors'
OrderRequests ==
  [emailOrPhone : Customers, subtotal : Subtotals,
   cartItems : SeqsUpTo(CartLines, MaxCart),
   colors : SeqsUpTo(ColorEntries, MaxColors), has_colors : BOOLEAN]

\* ---------------------------------------------------------------- submit_order
RECURSIVE color_map(_)
\* {c['id']: c['name'] for c in colors}: a later entry replaces an earlier one
color_map(colors) ==
  IF colors = <<>> THEN <<>>
  ELSE LET front == color_map(SubSeq(colors, 1, Len(colors) - 1))
           c == colors[Len(colors)]
       IN [k \in DOMAIN front \cup {c.id} |-> IF k = c.id THEN c.name ELSE front[k]]

\* a lookup that never finds the key
dict_get_default(map, key, default) == default

\* color_map.get(key, default)
dict_get(map, key, default) == IF key \in DOMAIN map THEN map[key] ELSE default

\* an Order built without status="Confirmed": the column default applies
order_row_pending(id, request, at) ==
  [id |-> id, email_or_phone |-> request.emailOrPhone, grand_total |-> request.subtotal,
   status |-> "Pending", created_at |-> at]

\* models.Order(...) with status="Confirmed" and created_at from func.now()
order_row(id, request, at) ==
  [id |-> id, email_or_phone |-> request.emailOrPhone, grand_total |-> request.subtotal,
   status |-> "Confirmed", created_at |-> at]

item_rows(oid, cart, map) ==
  [i \in 1..Len(cart) |->
     [order_id |-> oid, color_id |-> cart[i].colorId,
      color_name |-> dict_get(map, cart[i].colorId, cart[i].colorId),
      size |-> cart[i].size, quantity |-> cart[i].qty]]

\* the fields of schemas.OrderItemOut and schemas.OrderOut that the rows carry
item_out(item) ==
  [color_id |-> item.color_id, color_name |-> item.color_name,
   size |-> item.size, quantity |-> item.quantity]

items_of(oid) == SelectSeq(order_items, LAMBDA r : r.order_id = oid)

order_out(o, items) ==
  [id |-> o.id, grand_total |-> o.grand_total, email_or_phone |-> o.email_or_phone,
   status |-> o.status, created_at |-> o.created_at,
   items |-> [i \in DOMAIN items |-> item_out(items[i])]]

\* the color map, the Order row, db.add, db.commit, db.refresh; elapsed is
\* the time that passed on the database clock since the previous insert
submit_order_insert(request, elapsed) ==
  /\ oreq.pc = "idle"
  /\ next_order_id <= MaxOrders
  /\ IF ~request.has_colors
     THEN /\ oresp' = [op |-> "submit_order", status |-> 500, body |-> <<>>]
          /\ UNCHANGED <<orders, next_order_id, now, oreq>>
     ELSE /\ orders' = Append(orders, order_row(next_order_id, request, now + elapsed))
          /\ next_order_id' = next_order_id + 1
          /\ now' = now + elapsed
          /\ oreq' = [pc |-> "committed", cartItems |-> request.cartItems,
                      colors |-> request.colors, oid |-> next_order_id]
          /\ oresp' = [op |-> "submit_order", status |-> 0, body |-> <<>>]
  /\ UNCHANGED <<catalog_vars, blog_vars, mail_vars, order_items, last_status>>

\* the item loop, db.commit, db.refresh
submit_order_items(env) ==
  /\ oreq.pc = "committed"
  /\ IF env = "commit_fails"
     THEN /\ oresp' = [op |-> "submit_order", status |-> 500, body |-> <<>>]
          /\ UNCHANGED order_items
     ELSE /\ order_items' = order_items \o item_rows(oreq.oid, oreq.cartItems, color_map(oreq.colors))
          /\ oresp' = [op |-> "submit_order", status |-> 201,
                       body |-> <<order_out(CHOOSE o \in Range(orders) : o.id = oreq.oid,
                                            item_rows(oreq.oid, oreq.cartItems, color_map(oreq.colors)))>>]
  /\ oreq' = NoOrder
  /\ UNCHANGED <<catalog_vars, blog_vars, mail_vars, orders, next_order_id, now, last_status>>

\* ---------------------------------------------------------------- read_orders
\* the orderings of rows that ORDER BY key DESC may return
sorted_desc(rows, column) ==
  {s \in {[i \in DOMAIN rows |-> rows[p[i]]] :
            p \in {q \in [DOMAIN rows -> DOMAIN rows] :
                     \A i, j \in DOMAIN rows : i # j => q[i] # q[j]}} :
     \A i, j \in DOMAIN s : i < j => s[i][column] >= s[j][column]}

InvoiceWidth == 6    \* the width of the format spec :06

RECURSIVE digits(_)
\* the decimal digits of a natural number, most significant first
digits(n) == IF n < 10 THEN <<n>> ELSE Append(digits(n \div 10), n % 10)

RECURSIVE zero_pad(_, _)
\* zeros on the left up to the width; a longer number keeps all its digits
zero_pad(ds, width) == IF Len(ds) >= width THEN ds ELSE zero_pad(<<0>> \o ds, width)

\* f"INV-{order.id:06}": the prefix and the digits that follow it
invoice_of(id) == [prefix |-> "INV-", digits |-> zero_pad(digits(id), InvoiceWidth)]

\* order.invoice = ...: the loaded Order object with one more attribute
with_invoice(o) ==
  [f \in DOMAIN o \cup {"invoice"} |-> IF f = "invoice" THEN invoice_of(o.id) ELSE o[f]]

\* the query, the loop that attaches the invoice to each loaded object, and
\* the serialisation of the returned objects by response_model=List[OrderOut]
read_orders ==
  /\ oreq.pc = "idle"
  /\ \E s \in sorted_desc(orders, "created_at") :
       oresp' = [op |-> "read_orders", status |-> 200,
                 body |-> [i \in DOMAIN s |->
                             order_out(with_invoice(s[i]), items_of(s[i].id))]]
  /\ UNCHANGED <<catalog_vars, blog_vars, mail_vars, orders, order_items, next_order_id, now, oreq, last_status>>

\* ---------------------------------------------------------------- read_customers
\* an aggregate that takes the total of the first order of the group
first_grand_total(rows) == IF rows = <<>> THEN 0 ELSE Head(rows).grand_total

RECURSIVE sum_grand_total(_)
\* func.sum(Order.grand_total) over the rows of a group
sum_grand_total(rows) ==
  IF rows = <<>> THEN 0 ELSE Head(rows).grand_total + sum_grand_total(Tail(rows))

\* SQL max() over the values of a group
max_in(values) == CHOOSE m \in values : \A v \in values : v <= m

group_of(customer) == SelectSeq(orders, LAMBDA o : o.email_or_phone = customer)

\* GROUP BY email_or_phone with max(id), sum(grand_total), max(created_at)
customer_groups ==
  {[customer_id |-> c,
    latest_order_id |-> max_in({o.id : o \in Range(group_of(c))}),
    totalSpent |-> sum_grand_total(group_of(c)),
    lastOrder |-> max_in({o.created_at : o \in Range(group_of(c))})] :
     c \in {o.email_or_phone : o \in Range(orders)}}

\* the join of the groups with the order that has the latest id
joined_rows ==
  {[id |-> g.customer_id, totalSpent |-> g.totalSpent, lastOrder |-> g.lastOrder] :
     g \in {h \in customer_groups : \E o \in Range(orders) : o.id = h.latest_order_id}}

\* the sequences that list every element of a set once
listings(S) == {s \in [1..Cardinality(S) -> S] : \A x \in S : \E i \in DOMAIN s : s[i] = x}

read_customers ==
  /\ oreq.pc = "idle"
  /\ \E rows \in listings(joined_rows) :
       \E s \in sorted_desc(rows, "lastOrder") :
         oresp' = [op |-> "read_customers", status |-> 200, body |-> s]
  /\ UNCHANGED <<catalog_vars, blog_vars, mail_vars, orders, order_items, next_order_id, now, oreq, last_status>>

\* ---------------------------------------------------------------- update_order_status
order_exists(order_id) == \E o \in Range(orders) : o.id = order_id

\* an update whose query lacks the filter on the order id
update_order_status_unfiltered(order_id, status) ==
  /\ oreq.pc = "idle"
  /\ IF ~order_exists(order_id)
     THEN /\ oresp' = [op |-> "update_order_status", status |-> 404, body |-> <<>>]
          /\ UNCHANGED <<orders, last_status>>
     ELSE /\ orders' = [i \in DOMAIN orders |-> [orders[i] EXCEPT !.status = status]]
          /\ last_status' = [k \in DOMAIN last_status \cup {order_id} |->
                               IF k = order_id THEN status ELSE last_status[k]]
          /\ oresp' = [op |-> "update_order_status", status |-> 200,
                       body |-> <<[id |-> order_id, status |-> status]>>]
  /\ UNCHANGED <<catalog_vars, blog_vars, mail_vars, order_items, next_order_id, now, oreq>>

\* an update on a table whose created_at column is stamped on every write
update_order_status_stamping(order_id, status) ==
  /\ oreq.pc = "idle"
  /\ IF ~order_exists(order_id)
     THEN /\ oresp' = [op |-> "update_order_status", status |-> 404, body |-> <<>>]
          /\ UNCHANGED <<orders, last_status>>
     ELSE /\ orders' = [i \in DOMAIN orders |->
                          IF orders[i].id = order_id
                          THEN [orders[i] EXCEPT !.status = status, !.created_at = now + 1]
                          ELSE orders[i]]
          /\ last_status' = [k \in DOMAIN last_status \cup {order_id} |->
                               IF k = order_id THEN status ELSE last_status[k]]
          /\ oresp' = [op |-> "update_order_status", status |-> 200,
                       body |-> <<[id |-> order_id, status |-> status]>>]
  /\ UNCHANGED <<catalog_vars, blog_vars, mail_vars, order_items, next_order_id, now, oreq>>

\* the lookup by id, the 404, the write of the status, db.commit, db.refresh
update_order_status(order_id, status) ==
  /\ oreq.pc = "idle"
  /\ IF ~order_exists(order_id)
     THEN /\ oresp' = [op |-> "update_order_status", status |-> 404, body |-> <<>>]
          /\ UNCHANGED <<orders, last_status>>
     ELSE /\ orders' = [i \in DOMAIN orders |->
                          IF orders[i].id = order_id
                          THEN [orders[i] EXCEPT !.status = status] ELSE orders[i]]
          /\ last_status' = [k \in DOMAIN last_status \cup {order_id} |->
                               IF k = order_id THEN status ELSE last_status[k]]
          /\ oresp' = [op |-> "update_order_status", status |-> 200,
                       body |-> <<[id |-> order_id, status |-> status]>>]
  /\ UNCHANGED <<catalog_vars, blog_vars, mail_vars, order_items, next_order_id, now, oreq>>

OrderIds == 1..MaxOrders

\* ================================================================ blog
MaxCategories == 2   \* blog category ids the database hands out
MaxPosts == 2        \* blog post ids the database hands out

CategoryNames == {"news", "tips"}   \* category names a client may send

\* a worker that handles no blog request: pc is where its handler stands,
\* name the category name of the request, category_id the id of db_category
IdleBlogWorker == [pc |-> "idle", name |-> "", category_id |-> 0]

blog_response(op, status, name, category_id) ==
  [op |-> op, status |-> status, name |-> name, category_id |-> category_id]

BlogInit ==
  /\ blog_categories = {}
  /\ blog_posts = {}
  /\ next_category_id = 1
  /\ next_post_id = 1
  /\ breq = [w \in Workers |-> IdleBlogWorker]
  /\ bresp = blog_response("none", 0, "", 0)

\* db.query(BlogCategory).filter(BlogCategory.name == name): the rows found
categories_named(name) == {c \in blog_categories : c.name = name}

\* a table without the UNIQUE index on blog_categories.name
unique_name_unchecked(name) == FALSE

\* the UNIQUE index on blog_categories.name refuses the insert at commit
unique_name_violated(name) == categories_named(name) # {}

\* ---------------------------------------------------------------- create_blog_category
\* the lookup by name and the 400 of an existing name
create_blog_category_lookup(w, name) ==
  /\ breq[w].pc = "idle"
  /\ IF categories_named(name) # {}
     THEN /\ bresp' = blog_response("create_blog_category", 400, name, 0)
          /\ UNCHANGED breq
     ELSE /\ breq' = [breq EXCEPT ![w] = [pc |-> "category_add", name |-> name,
                                           category_id |-> 0]]
          /\ UNCHANGED bresp
  /\ UNCHANGED <<catalog_vars, order_vars, mail_vars, blog_categories, blog_posts,
                 next_category_id, next_post_id>>

\* db.add, db.commit, db.refresh and the response
create_blog_category_insert(w) ==
  /\ breq[w].pc = "category_add"
  /\ next_category_id <= MaxCategories
  /\ IF unique_name_violated(breq[w].name)
     THEN /\ bresp' = blog_response("create_blog_category", 500, breq[w].name, 0)
          /\ UNCHANGED <<blog_categories, next_category_id>>
     ELSE /\ blog_categories' = blog_categories \cup
                                  {[id |-> next_category_id, name |-> breq[w].name]}
          /\ next_category_id' = next_category_id + 1
          /\ bresp' = blog_response("create_blog_category", 200, breq[w].name,
                                    next_category_id)
  /\ breq' = [breq EXCEPT ![w] = IdleBlogWorker]
  /\ UNCHANGED <<catalog_vars, order_vars, mail_vars, blog_posts, next_post_id>>

\* ---------------------------------------------------------------- create_blog_post
\* the lookup of the category by name
create_blog_post_lookup(w, category) ==
  /\ breq[w].pc = "idle"
  /\ breq' = [breq EXCEPT ![w] =
       IF categories_named(category) # {}
       THEN [pc |-> "post_add", name |-> category,
             category_id |-> (CHOOSE c \in categories_named(category) : TRUE).id]
       ELSE [pc |-> "post_category_add", name |-> category, category_id |-> 0]]
  /\ UNCHANGED <<catalog_vars, order_vars, mail_vars, blog_categories, blog_posts,
                 next_category_id, next_post_id, bresp>>

\* the category that the lookup did not find: db.add, db.commit, db.refresh
create_blog_post_category(w) ==
  /\ breq[w].pc = "post_category_add"
  /\ next_category_id <= MaxCategories
  /\ IF unique_name_violated(breq[w].name)
     THEN /\ bresp' = blog_response("create_blog_post", 500, breq[w].name, 0)
          /\ breq' = [breq EXCEPT ![w] = IdleBlogWorker]
          /\ UNCHANGED <<blog_categories, next_category_id>>
     ELSE /\ blog_categories' = blog_categories \cup
                                  {[id |-> next_category_id, name |-> breq[w].name]}
          /\ next_category_id' = next_category_id + 1
          /\ breq' = [breq EXCEPT ![w] = [pc |-> "post_add", name |-> breq[w].name,
                                           category_id |-> next_category_id]]
          /\ UNCHANGED bresp
  /\ UNCHANGED <<catalog_vars, order_vars, mail_vars, blog_posts, next_post_id>>

BlogEnvironment == {"ok", "file_write_fails", "commit_fails"}

\* the image file, the BlogPost row, db.add, db.commit, db.refresh
create_blog_post_insert(w, env) ==
  /\ breq[w].pc = "post_add"
  /\ next_post_id <= MaxPosts
  /\ IF env # "ok"
     THEN /\ bresp' = blog_response("create_blog_post", 500, breq[w].name, 0)
          /\ UNCHANGED <<blog_posts, next_post_id>>
     ELSE /\ blog_posts' = blog_posts \cup
                             {[id |-> next_post_id, category_id |-> breq[w].category_id]}
          /\ next_post_id' = next_post_id + 1
          /\ bresp' = blog_response("create_blog_post", 200, breq[w].name,
                                    breq[w].category_id)
  /\ breq' = [breq EXCEPT ![w] = IdleBlogWorker]
  /\ UNCHANGED <<catalog_vars, order_vars, mail_vars, blog_categories, next_category_id>>

\* ---------------------------------------------------------------- delete_blog_post
delete_blog_post(post_id) ==
  /\ IF \E p \in blog_posts : p.id = post_id
     THEN /\ blog_posts' = {p \in blog_posts : p.id # post_id}
          /\ bresp' = blog_response("delete_blog_post", 204, "", 0)
     ELSE /\ bresp' = blog_response("delete_blog_post", 404, "", 0)
          /\ UNCHANGED blog_posts
  /\ UNCHANGED <<catalog_vars, order_vars, mail_vars, blog_categories,
                 next_category_id, next_post_id, breq>>

PostIds == 1..MaxPosts

\* ================================================================ email
MaxMails == 3        \* most messages the relay accepts

Recipients == {"a@x.io", "b@x.io", "not-an-address"}   \* EmailRequest.to
Subjects == {"hello", "order"}                         \* EmailRequest.subject

\* what the connection to the relay does: everything works, or the named
\* step raises (quit is the QUIT that leaving the with block sends)
Transport == {"ok", "connect_fails", "starttls_fails", "login_fails",
              "send_fails", "quit_fails"}

\* no send_email result: the endpoint did not call it
NoResult == [status |-> "none", message |-> <<>>]

\* the request last answered: the status of the response (0: none yet), its
\* body, the result of send_email and what the transport did during the call
MailInit ==
  /\ outbox = <<>>
  /\ mresp = [status |-> 0, body |-> NoResult, result |-> NoResult,
              transport |-> "not_called"]

\* EmailStr accepts the address
valid_address(to) == to # "not-an-address"

\* a helper that reports success whatever the transport did
send_email_always_success(to, transport) ==
  [status |-> "success", message |-> <<"Email sent to ", to>>]

\* send_email: the try block returns the success result, the except clause
\* turns whatever was raised into the error result
send_email(to, transport) ==
  IF transport = "ok"
  THEN [status |-> "success", message |-> <<"Email sent to ", to>>]
  ELSE [status |-> "error", message |-> <<transport>>]

\* the relay has accepted the message once send_message returned
accepted(transport) == transport \in {"ok", "quit_fails"}

\* POST /send-email/: the validation of the body, the call, the 500 of an
\* error result
send_email_endpoint(email, transport) ==
  /\ Len(outbox) < MaxMails
  /\ IF ~valid_address(email.to)
     THEN /\ mresp' = [status |-> 422, body |-> NoResult, result |-> NoResult,
                       transport |-> "not_called"]
          /\ UNCHANGED outbox
     ELSE LET result == send_email(email.to, transport)
          IN /\ mresp' = IF result.status = "error"
                         THEN [status |-> 500, body |-> [detail |-> result.message],
                               result |-> result, transport |-> transport]
                         ELSE [status |-> 200, body |-> result,
                               result |-> result, transport |-> transport]
             /\ outbox' = IF accepted(transport) THEN Append(outbox, email) ELSE outbox
  /\ UNCHANGED <<catalog_vars, order_vars, blog_vars>>

EmailRequests == [to : Recipients, subject : Subjects]

\* ================================================================ specifications
Init == CatalogInit /\ OrdersInit /\ BlogInit /\ MailInit

\* One server process: the handlers are coroutines that never await, so a
\* request runs from its first line to its last before the next one starts.
NoneInProgress == \A w \in Workers : creq[w].pc = "idle"

SerialNext ==
  \/ \E form \in ProductForms : NoneInProgress /\ create_product_validate("w1", form)
  \/ create_product_insert("w1")
  \/ \E env \in Environment : create_product_children("w1", env)
  \/ \E id \in ProductIds : NoneInProgress /\ delete_product(id)
  \/ \E id \in ProductIds, review \in ReviewBodies :
       NoneInProgress /\ create_review(id, review)

SpecCatalog == Init /\ [][SerialNext]_vars

\* Several server processes: requests interleave at the database statements.
\* The forms carry one tier and no images, which play no part in how
\* requests interleave.

ConcurrentNext ==
  \/ \E w \in Workers, form \in PlainForms : create_product_validate(w, form)
  \/ \E w \in Workers : create_product_insert(w)
  \/ \E w \in Workers, env \in Environment : create_product_children(w, env)
  \/ \E id \in ProductIds : delete_product(id)

SpecConcurrent == Init /\ [][ConcurrentNext]_vars

\* The customers and totals vary, every cart is the same single line.
CustomerRequests ==
  {r \in OrderRequests : /\ r.cartItems = <<[colorId |-> "c1", size |-> "M", qty |-> 1]>>
                         /\ r.colors = <<>>}

CustomersNext ==
  \/ \E request \in CustomerRequests, elapsed \in {0, 1} : submit_order_insert(request, elapsed)
  \/ \E env \in {"ok", "commit_fails"} : submit_order_items(env)
  \/ read_orders
  \/ read_customers
  \/ \E id \in OrderIds, status \in Statuses : update_order_status(id, status)

SpecCustomers == Init /\ [][CustomersNext]_vars

\* One customer, one total and one cart line: the orders differ in their
\* time of insert and in the statuses that the updates give them.
StatusRequests ==
  {r \in CustomerRequests : r.emailOrPhone = "ann@x.io" /\ r.subtotal = 10}

StatusNext ==
  \/ \E request \in StatusRequests : submit_order_insert(request, 1)
  \/ \E env \in {"ok", "commit_fails"} : submit_order_items(env)
  \/ read_orders
  \/ read_customers
  \/ \E id \in OrderIds, status \in Statuses : update_order_status(id, status)

SpecStatus == Init /\ [][StatusNext]_vars

\* The carts and color maps vary, the customer and the total are fixed.
CartRequests ==
  {r \in OrderRequests : r.emailOrPhone = "ann@x.io" /\ r.subtotal = 10}

CartNext ==
  \/ \E request \in CartRequests : submit_order_insert(request, 1)
  \/ \E env \in {"ok", "commit_fails"} : submit_order_items(env)
  \/ read_orders

SpecCart == Init /\ [][CartNext]_vars

\* The blog handlers are plain functions, which the server runs on a pool of
\* threads: requests interleave at the database statements.
BlogNext ==
  \/ \E w \in Workers, name \in CategoryNames : create_blog_category_lookup(w, name)
  \/ \E w \in Workers : create_blog_category_insert(w)
  \/ \E w \in Workers, category \in CategoryNames : create_blog_post_lookup(w, category)
  \/ \E w \in Workers : create_blog_post_category(w)
  \/ \E w \in Workers, env \in BlogEnvironment : create_blog_post_insert(w, env)
  \/ \E id \in PostIds : delete_blog_post(id)

SpecBlog == Init /\ [][BlogNext]_vars

MailNext ==
  \E email \in EmailRequests, transport \in Transport : send_email_endpoint(email, transport)

SpecMail == Init /\ [][MailNext]_vars

\* ================================================================ properties
\* C1: a create_product request whose min_quantities and prices lists differ
\* in length is answered 4xx by the validation and writes nothing: it never
\* gets past the validation, where the product row is committed.
C1_MismatchedListsRejected ==
  \A w \in Workers :
    creq[w].pc \in {"validated", "inserted"} =>
      Len(creq[w].req.min_quantities) = Len(creq[w].req.prices)

\* C2: when create_product ends, whatever its outcome, the product row it
\* committed has all the tier rows and image rows the request asked for (or
\* the product row is not there either).
C2_ParentWithAllChildren ==
  [][\A w \in Workers :
       (creq[w].pc = "inserted" /\ creq'[w].pc = "idle"
          /\ (\E p \in products' : p.id = creq[w].pid))
       => /\ Len(rows_of(pricing_tiers', creq[w].pid)) = Len(creq[w].req.min_quantities)
          /\ Len(rows_of(product_images', creq[w].pid)) = creq[w].req.images
    ]_vars

\* C3 as stated: a create_product whose sku an existing product has is
\* answered 400 and adds no row, and no two product rows ever share a sku.
NoDuplicateSku == \A p, q \in products : p.sku = q.sku => p.id = q.id

\* this step is a create_product that its validation rejects
Rejected == creq' = creq /\ resp' # resp /\ resp'.op = "create_product"

TakenSkuNeverPasses ==
  \A w \in Workers :
    (creq[w].pc = "idle" /\ creq'[w].pc = "validated") => ~sku_registered(creq'[w].req.sku)

TablesUnchanged == UNCHANGED <<products, pricing_tiers, product_images, reviews>>

C3_DuplicateSkuAnswered400 ==
  /\ []NoDuplicateSku
  /\ [][/\ TakenSkuNeverPasses
        /\ (Rejected /\ sku_registered(resp'.sku)) => (resp'.status = 400 /\ TablesUnchanged)
       ]_vars

\* C3 amended: a create_product whose sku an existing product has is answered
\* 400, or 422 when min_quantities or prices does not parse, and adds no row;
\* no two product rows ever share a sku, however requests interleave.
C3_DuplicateSkuRejected ==
  /\ []NoDuplicateSku
  /\ [][/\ TakenSkuNeverPasses
        /\ (Rejected /\ sku_registered(resp'.sku))
             => (resp'.status \in {400, 422} /\ TablesUnchanged)
       ]_vars

\* a request was answered 400 for a sku that is registered (its images and
\* labels matched) while another worker has a request of its own in progress
C3_Witness ==
  /\ resp.op = "create_product" /\ resp.status = 400 /\ ~resp.differ
  /\ sku_registered(resp.sku)
  /\ \E w \in Workers : creq[w].pc = "inserted"

\* the image rows of a product, in insertion order, carry exactly these labels
ImageLabelsAre(table, pid, labels) ==
  rows_of(table, pid) = [i \in 1..Len(labels) |-> [product_id |-> pid, color |-> labels[i]]]

SuccessPersistsLabelledImages ==
  \A w \in Workers :
    (creq[w].pc = "inserted" /\ resp'.status = 200 /\ creq'[w].pc = "idle")
    => /\ Len(creq[w].req.image_colors) = creq[w].req.images
       /\ ImageLabelsAre(product_images', creq[w].pid, creq[w].req.image_colors)

\* C4 as stated: a successful create_product with N images and N labels
\* persists exactly N image rows, the i-th with the i-th label; a request
\* whose image and label counts differ is answered 400 and persists nothing.
C4_ImagesPairedOrAnswered400 ==
  /\ []((resp.op = "create_product" /\ resp.differ) => (resp.status = 400 /\ resp.id = 0))
  /\ [][/\ SuccessPersistsLabelledImages
        /\ (Rejected /\ resp'.differ) => TablesUnchanged]_vars

\* C4 amended: as stated, except that a request whose counts differ is
\* answered 422 rather than 400 when min_quantities or prices does not parse.
C4_ImagesPairedOrRejected ==
  /\ []((resp.op = "create_product" /\ resp.differ)
          => (resp.status \in {400, 422} /\ resp.id = 0))
  /\ [][/\ SuccessPersistsLabelledImages
        /\ (Rejected /\ resp'.differ) => TablesUnchanged]_vars

\* a request with two images was answered 200 and its product has the two
\* image rows, labelled red and blue in that order
C4_Witness ==
  /\ resp.op = "create_product" /\ resp.status = 200
  /\ ImageLabelsAre(product_images, resp.id, <<"red", "blue">>)

\* C5: every pricing tier, image and review row references a product that
\* exists; a delete_product of an existing id answers 204 and leaves no row
\* that references the id; a delete_product of an absent id answers 404 and
\* changes no table.
NoOrphanRows ==
  /\ \A i \in DOMAIN pricing_tiers : product_exists(pricing_tiers[i].product_id)
  /\ \A i \in DOMAIN product_images : product_exists(product_images[i].product_id)
  /\ \A i \in DOMAIN reviews : product_exists(reviews[i].product_id)

C5_DeleteCascades ==
  /\ []NoOrphanRows
  /\ [][\A id \in ProductIds : delete_product(id) =>
          IF product_exists(id)
          THEN /\ resp'.status = 204
               /\ \A p \in products' : p.id # id
               /\ rows_of(pricing_tiers', id) = <<>>
               /\ rows_of(product_images', id) = <<>>
               /\ rows_of(reviews', id) = <<>>
          ELSE /\ resp'.status = 404
               /\ UNCHANGED <<products, pricing_tiers, product_images, reviews>>
       ]_vars

\* a product was deleted while another product keeps its tier and its images
C5_Witness ==
  /\ resp.op = "delete_product" /\ resp.status = 204
  /\ Cardinality(products) = 1
  /\ next_product_id = 3
  /\ pricing_tiers # <<>>
  /\ product_images # <<>>

\* C6: create_review of an absent product answers 404 and inserts nothing; of
\* an existing product it inserts one verified review row for that product
\* and returns it.
C6_ReviewCreated ==
  [][\A id \in ProductIds, review \in ReviewBodies : create_review(id, review) =>
       IF product_exists(id)
       THEN /\ resp'.status = 200
            /\ reviews' = Append(reviews, [product_id |-> id, rating |-> review.rating,
                                           verified |-> TRUE])
       ELSE /\ resp'.status = 404
            /\ UNCHANGED reviews
    ]_vars

\* C7: a successful submit_order inserts exactly one order row, with status
\* "Confirmed", and exactly one order_items row per cart line, in cart order,
\* each with the new order's id and the line's color id, size and quantity.
C7_OrderAndItemsInserted ==
  [][
      /\ (oreq.pc = "idle" /\ oreq'.pc = "committed")
          => /\ Len(orders') = Len(orders) + 1
             /\ SubSeq(orders', 1, Len(orders)) = orders
             /\ orders'[Len(orders')].status = "Confirmed"
             /\ orders'[Len(orders')].id = oreq'.oid
             /\ \A i \in DOMAIN orders : orders[i].id # oreq'.oid
             /\ order_items' = order_items
      /\ (oreq.pc = "committed" /\ oresp'.status = 201)
          => /\ orders' = orders
             /\ Len(order_items') = Len(order_items) + Len(oreq.cartItems)
             /\ SubSeq(order_items', 1, Len(order_items)) = order_items
             /\ \A i \in DOMAIN oreq.cartItems :
                  LET row == order_items'[Len(order_items) + i]
                      line == oreq.cartItems[i]
                  IN /\ row.order_id = oreq.oid
                     /\ row.color_id = line.colorId
                     /\ row.size = line.size
                     /\ row.quantity = line.qty
    ]_vars

\* the second order was submitted with a cart of two different lines
C7_Witness ==
  /\ oresp.op = "submit_order" /\ oresp.status = 201
  /\ oresp.body[1].id = 2
  /\ Len(oresp.body[1].items) = 2
  /\ oresp.body[1].items[1].color_id # oresp.body[1].items[2].color_id
  /\ Len(items_of(2)) = 2

\* C8: the color_name stored for a cart line is the name that the request's
\* colors give for the line's color id, and the color id itself when the
\* colors do not have the id.
C8_ColorNameResolved ==
  [][(oreq.pc = "committed" /\ oresp'.status = 201)
       => \A i \in DOMAIN oreq.cartItems :
            LET stored == order_items'[Len(order_items) + i].color_name
                cid == oreq.cartItems[i].colorId
                names == {c.name : c \in {d \in Range(oreq.colors) : d.id = cid}}
            IN IF names = {} THEN stored = cid ELSE stored \in names
    ]_vars

\* an order was stored with one line whose color id the colors name ("Red")
\* and one line whose color id they do not have ("c2")
C8_Witness ==
  /\ oresp.op = "submit_order" /\ oresp.status = 201
  /\ \E i, j \in DOMAIN order_items :
       /\ order_items[i].order_id = order_items[j].order_id
       /\ order_items[i].color_id = "c1" /\ order_items[i].color_name = "Red"
       /\ order_items[j].color_id = "c2" /\ order_items[j].color_name = "c2"

\* C9: read_customers returns one entry per distinct email_or_phone of the
\* stored orders, with totalSpent the sum of the grand_total and lastOrder
\* the latest created_at of the orders of that customer, ordered by lastOrder
\* descending.
RECURSIVE TotalOfOrders(_)
TotalOfOrders(indices) ==
  IF indices = {} THEN 0
  ELSE LET i == CHOOSE k \in indices : TRUE
       IN orders[i].grand_total + TotalOfOrders(indices \ {i})

OrdersOfCustomer(c) == {i \in DOMAIN orders : orders[i].email_or_phone = c}

C9_CustomersAggregated ==
  oresp.op = "read_customers" =>
    LET body == oresp.body
    IN /\ oresp.status = 200
       /\ {body[i].id : i \in DOMAIN body} = {orders[k].email_or_phone : k \in DOMAIN orders}
       /\ \A i, j \in DOMAIN body : body[i].id = body[j].id => i = j
       /\ \A i \in DOMAIN body :
            /\ body[i].totalSpent = TotalOfOrders(OrdersOfCustomer(body[i].id))
            /\ \E k \in OrdersOfCustomer(body[i].id) : orders[k].created_at = body[i].lastOrder
            /\ \A k \in OrdersOfCustomer(body[i].id) : orders[k].created_at <= body[i].lastOrder
       /\ \A i, j \in DOMAIN body : i < j => body[i].lastOrder >= body[j].lastOrder

\* two orders of one customer, placed at different times, are read as one entry
C9_Witness ==
  /\ oresp.op = "read_customers"
  /\ Len(orders) = 2
  /\ orders[1].email_or_phone = orders[2].email_or_phone
  /\ orders[1].created_at < orders[2].created_at
  /\ Len(oresp.body) = 1
  /\ oresp.body[1].totalSpent = orders[1].grand_total + orders[2].grand_total

\* C10: a read_orders shows every order whose status was updated with the
\* status that the last update of that order supplied; an update of an absent
\* order id answers 404 and changes no order.
C10_StatusRoundTrip ==
  /\ [](oresp.op = "read_orders" =>
          \A id \in DOMAIN last_status :
            \E i \in DOMAIN oresp.body :
              oresp.body[i].id = id /\ oresp.body[i].status = last_status[id])
  /\ [][\A id \in OrderIds, status \in Statuses :
          (update_order_status(id, status) /\ ~order_exists(id))
          => (oresp'.status = 404 /\ UNCHANGED <<orders, order_items>>)
       ]_vars

\* both orders were updated, to different statuses, and then read
C10_Witness ==
  /\ oresp.op = "read_orders"
  /\ DOMAIN last_status = {1, 2}
  /\ last_status[1] = "Shipped"
  /\ last_status[2] = "Cancelled"

\* C11: a blog category is created only under a name that no category has,
\* whichever handler creates it and however requests interleave: at most one
\* category exists per name; the category_id of every post, and of every
\* successful create_blog_post, is the id of an existing category, which has
\* the requested name; a create_blog_category that finds its name in use is
\* answered 400 and changes nothing.
OneCategoryPerName == \A c, d \in blog_categories : c.name = d.name => c.id = d.id

PostsReferenceCategories ==
  \A p \in blog_posts : \E c \in blog_categories : c.id = p.category_id

C11_CategoryResolvedOnce ==
  /\ [](OneCategoryPerName /\ PostsReferenceCategories)
  /\ [](bresp.op = "create_blog_post" /\ bresp.status = 200
          => \E c \in blog_categories : c.id = bresp.category_id /\ c.name = bresp.name)
  /\ [][/\ \A c \in blog_categories' \ blog_categories : categories_named(c.name) = {}
        /\ blog_categories \subseteq blog_categories'
        /\ \A w \in Workers, name \in CategoryNames :
             (create_blog_category_lookup(w, name) /\ categories_named(name) # {})
               => /\ bresp'.status = 400
                  /\ UNCHANGED <<blog_categories, blog_posts, breq>>
       ]_vars

\* a post was created in a category that its own request created, while a
\* request that missed the same name in its lookup lost the insert to it
C11_Witness ==
  /\ bresp.op \in {"create_blog_post", "create_blog_category"}
  /\ bresp.status = 500
  /\ categories_named(bresp.name) # {}
  /\ \E p \in blog_posts : \E c \in categories_named(bresp.name) : p.category_id = c.id
  /\ \A w \in Workers : breq[w].pc = "idle"

\* C12: every order_items row that submit_order calls persisted has a
\* quantity greater than 0.
C12_QuantitiesPositive ==
  \A i \in DOMAIN order_items : order_items[i].quantity > 0

\* C13: read_orders returns every stored order with its items, newest first
\* by created_at, each with an invoice that is the order id zero-padded to
\* the fixed width, and changes no persisted row.
OrdersListed ==
  LET body == oresp.body
  IN /\ oresp.status = 200
     /\ Len(body) = Len(orders)
     /\ \A k \in DOMAIN orders : \E i \in DOMAIN body :
          /\ body[i].id = orders[k].id
          /\ body[i].created_at = orders[k].created_at
          /\ body[i].items = [j \in DOMAIN items_of(orders[k].id) |->
                                item_out(items_of(orders[k].id)[j])]
     /\ \A i, j \in DOMAIN body : i < j => body[i].created_at >= body[j].created_at

InvoicesListed ==
  \A i \in DOMAIN oresp.body :
    /\ "invoice" \in DOMAIN oresp.body[i]
    /\ oresp.body[i].invoice = invoice_of(oresp.body[i].id)

C13_OrdersListedWithInvoice ==
  /\ [](oresp.op = "read_orders" => (OrdersListed /\ InvoicesListed))
  /\ [][read_orders => UNCHANGED <<orders, order_items>>]_vars

\* C14: send_email turns every failure of the transport into a result with
\* status "error" and reports "success" when nothing failed; the endpoint
\* answers 500 exactly when the result is an error, with the message as the
\* detail, and returns the result otherwise.
C14_TransportFailureReported ==
  mresp.transport # "not_called" =>
    /\ mresp.transport # "ok" => mresp.result.status = "error"
    /\ mresp.transport = "ok" => mresp.result.status = "success"
    /\ mresp.status = 500 <=> mresp.result.status = "error"
    /\ mresp.status = 500 => mresp.body = [detail |-> mresp.result.message]
    /\ mresp.status # 500 => (mresp.status = 200 /\ mresp.body = mresp.result)

\* a call whose login failed was answered 500 after an earlier call delivered
C14_Witness ==
  /\ mresp.transport = "login_fails"
  /\ mresp.status = 500
  /\ Len(outbox) = 1

\* C15: the created_at of an order is the time of its insert and never
\* changes; no step changes a field other than status of a stored order, a
\* status changes only in an update_order_status of that order's id, and that
\* update leaves the items and every other order as they were.
C15_OnlyStatusPatched ==
  [][
      /\ Len(orders') >= Len(orders)
      /\ Len(orders') > Len(orders) => orders'[Len(orders')].created_at = now'
      /\ \A i \in DOMAIN orders :
           /\ [orders'[i] EXCEPT !.status = orders[i].status] = orders[i]
           /\ orders'[i].status # orders[i].status
                => \E status \in Statuses : update_order_status(orders[i].id, status)
      /\ \A id \in OrderIds, status \in Statuses :
           update_order_status(id, status)
             => /\ order_items' = order_items
                /\ Len(orders') = Len(orders)
                /\ \A i \in DOMAIN orders : orders[i].id # id => orders'[i] = orders[i]
    ]_vars

\* of two orders placed at different times the first was updated, and both
\* still carry the time of their insert
C15_Witness ==
  /\ oresp.op = "update_order_status" /\ oresp.status = 200
  /\ Len(orders) = 2
  /\ orders[1].status = "Shipped" /\ orders[2].status = "Confirmed"
  /\ orders[1].created_at = 1 /\ orders[2].created_at = 2
  /\ Len(order_items) = 2

====
